---------------------------- MODULE Spec2Model ----------------------------
(***************************************************************************)
(* Model of the Markdown-to-HTML pipeline of src/md_parser: the nom        *)
(* recognizers of parser.rs, the tree of types.rs and the translator of    *)
(* translator.rs.                                                          *)
(*                                                                         *)
(* A Rust &str / String is a sequence of characters; a character is a      *)
(* one-character TLA+ string, except the backtick (a TLA+ string cannot    *)
(* hold one), written "U+0060", and the non-ASCII character U+0130,        *)
(* written "U+0130".  A nom IResult is a record: Ok((rest, val)) is        *)
(* [ok |-> TRUE, rest, val] and Err(Error(..)) is [ok |-> FALSE, ...].     *)
(***************************************************************************)
EXTENDS Naturals, Sequences, FiniteSets, TLC

VARIABLES
    md,      \* the document handed to render_markdown / the recognizer input
    tree,    \* a Vec<Markdown> handed directly to translate
    pc,      \* position in render_markdown, or "called" after a direct call
    rest,    \* the remaining input i of many0 inside parse_markdown
    blocks,  \* the accumulator acc of many0 inside parse_markdown
    out,     \* the String returned by render_markdown
    fn,      \* the public function called directly on md (or on tree)
    res      \* what that function returned

vars == <<md, tree, pc, rest, blocks, out, fn, res>>

-----------------------------------------------------------------------------
(* Strings *)

Drop(i, n) == SubSeq(i, n + 1, Len(i))
Take(i, n) == SubSeq(i, 1, n)
StartsWith(i, t) == Len(i) >= Len(t) /\ Take(i, Len(t)) = t
Chars(s) == {s[k] : k \in 1..Len(s)}

\* The backtick character.
BACKTICK == "U+0060"

RECURSIVE Concat(_)
Concat(ss) == IF ss = <<>> THEN <<>> ELSE Head(ss) \o Concat(Tail(ss))

RECURSIVE Repeat(_, _)
Repeat(s, n) == IF n = 0 THEN <<>> ELSE s \o Repeat(s, n - 1)

\* The Unicode scalar value of the characters the inputs are drawn from.
CodePoint(c) ==
    CASE c = "\n" -> 10
      [] c = " " -> 32
      [] c = "!" -> 33
      [] c = "#" -> 35
      [] c = "(" -> 40
      [] c = ")" -> 41
      [] c = "*" -> 42
      [] c = "-" -> 45
      [] c = "." -> 46
      [] c = "0" -> 48
      [] c = "1" -> 49
      [] c = "2" -> 50
      [] c = "9" -> 57
      [] c = "<" -> 60
      [] c = ">" -> 62
      [] c = "[" -> 91
      [] c = "]" -> 93
      [] c = "_" -> 95
      [] c = BACKTICK -> 96
      [] c = "a" -> 97
      [] c = "b" -> 98
      [] c = "U+0130" -> 304

\* (d as u8): the cast keeps the low eight bits.
as_u8(c) == CodePoint(c) % 256

\* nom::character::is_digit(chr: u8)
is_digit(chr) == chr >= 48 /\ chr <= 57

-----------------------------------------------------------------------------
(* nom combinators (complete variants), as the recognizers use them *)

Ok(r, v) == [ok |-> TRUE, rest |-> r, val |-> v]
Err(i) == [ok |-> FALSE, rest |-> i, val |-> <<>>]

\* tag(t): the input starts with t.
tag(t, i) == IF StartsWith(i, t) THEN Ok(Drop(i, Len(t)), t) ELSE Err(i)

\* Length of the longest prefix of i at whose positions holds is TRUE;
\* holds[k] tells whether the predicate accepts the character i[k].
PrefixLen(holds, i) ==
    CHOOSE n \in 0..Len(i) :
        /\ \A k \in 1..n : holds[k]
        /\ (n = Len(i) \/ ~holds[n + 1])

\* is_not(arr): the longest prefix holding no character OF THE SET arr;
\* an empty prefix is an error.
is_not(arr, i) ==
    LET n == PrefixLen([k \in 1..Len(i) |-> i[k] \notin Chars(arr)], i)
    IN  IF n = 0 THEN Err(i) ELSE Ok(Drop(i, n), Take(i, n))

\* take_while1(cond): the longest prefix satisfying cond, at least one
\* char; holds[k] is cond applied to i[k].
take_while1(holds, i) ==
    LET n == PrefixLen(holds, i)
    IN  IF n = 0 THEN Err(i) ELSE Ok(Drop(i, n), Take(i, n))

\* take(1u8): one character.
take1(i) == IF Len(i) = 0 THEN Err(i) ELSE Ok(Drop(i, 1), Take(i, 1))

\* alt((a, b)): the first alternative that succeeds.
alt(a, b) == IF a.ok THEN a ELSE b

\* delimited(tag(open), is_not(arr), tag(close))
delimited_is_not(open, arr, close, i) ==
    LET closed(b, c) == IF c.ok THEN Ok(c.rest, b.val) ELSE Err(i)
        inner(b) == IF b.ok THEN closed(b, tag(close, b.rest)) ELSE Err(i)
        opened(a) == IF a.ok THEN inner(is_not(arr, a.rest)) ELSE Err(i)
    IN  opened(tag(open, i))

-----------------------------------------------------------------------------
(* Inline grammar: parser.rs 43-111 *)

STARS3 == <<"*", "*", "*">>
UNDERS3 == <<"_", "_", "_">>
STARS2 == <<"*", "*">>
UNDERS2 == <<"_", "_">>
FENCE == <<BACKTICK, BACKTICK, BACKTICK>>
NEWLINE == <<"\n">>

parse_bold_italic(input) ==
    alt(delimited_is_not(STARS3, STARS3, STARS3, input),
        delimited_is_not(UNDERS3, UNDERS3, UNDERS3, input))

parse_bold(input) ==
    alt(delimited_is_not(STARS2, STARS2, STARS2, input),
        delimited_is_not(UNDERS2, UNDERS2, UNDERS2, input))

\* A variant of parse_italic whose underscore alternative scans for "*".
parse_italic_star_set(input) ==
    alt(delimited_is_not(<<"*">>, <<"*">>, <<"*">>, input),
        delimited_is_not(<<"_">>, <<"*">>, <<"_">>, input))

\* A variant of parse_italic whose underscore alternative scans for, and
\* closes with, "*".
parse_italic_mixed(input) ==
    alt(delimited_is_not(<<"*">>, <<"*">>, <<"*">>, input),
        delimited_is_not(<<"_">>, <<"*">>, <<"*">>, input))

parse_italic(input) ==
    alt(delimited_is_not(<<"*">>, <<"*">>, <<"*">>, input),
        delimited_is_not(<<"_">>, <<"_">>, <<"_">>, input))

parse_inline_code(input) == delimited_is_not(<<BACKTICK>>, <<BACKTICK>>, <<BACKTICK>>, input)

\* pair(delimited(tag(open), is_not("]"), tag("]")),
\*      delimited(tag("("), is_not(")"), tag(")")))
bracket_pair(open, i) ==
    LET both(a, b) == IF b.ok THEN Ok(b.rest, <<a.val, b.val>>) ELSE Err(i)
        second(a) ==
            IF a.ok
            THEN both(a, delimited_is_not(<<"(">>, <<")">>, <<")">>, a.rest))
            ELSE Err(i)
    IN  second(delimited_is_not(open, <<"]">>, <<"]">>, i))

parse_link(i) == bracket_pair(<<"[">>, i)

parse_image(i) == bracket_pair(<<"!", "[">>, i)

\* The tags parse_plaintext refuses to start a character at.
PLAINTEXT_STOPS == {<<"*">>, <<BACKTICK>>, <<"[">>, <<"!", "[">>, <<"\n">>}

\* A variant of plaintext_char with the alternative tag("_") added.
plaintext_char_stop_underscore(i) ==
    IF \E t \in PLAINTEXT_STOPS \cup {<<"_">>} : tag(t, i).ok THEN Err(i)
    ELSE take1(i)

\* A variant of plaintext_char without the "![" alternative.
plaintext_char_no_image(i) ==
    IF \E t \in PLAINTEXT_STOPS \ {<<"!", "[">>} : tag(t, i).ok THEN Err(i)
    ELSE take1(i)

\* preceded(not(alt((tag("*"), ...))), take(1u8))
plaintext_char(i) ==
    IF \E t \in PLAINTEXT_STOPS : tag(t, i).ok THEN Err(i) ELSE take1(i)

\* many1(plaintext_char): the input left after the run.  The repetition
\* stops at the first error; each success consumes one character.
RECURSIVE many_plaintext_char(_)
many_plaintext_char(i) ==
    LET step(r) == IF r.ok THEN many_plaintext_char(r.rest) ELSE i
    IN  step(plaintext_char(i))

\* A variant of parse_plaintext that takes a single character.
parse_plaintext_one_char(i) ==
    LET one(first) == IF first.ok THEN Ok(first.rest, Take(i, 1)) ELSE Err(i)
    IN  one(plaintext_char(i))

\* recognize(many1(plaintext_char))
parse_plaintext(i) ==
    LET recognized(left) == Ok(left, Take(i, Len(i) - Len(left)))
        many1(first) ==
            IF first.ok THEN recognized(many_plaintext_char(first.rest))
            ELSE Err(i)
    IN  many1(plaintext_char(i))

\* MarkdownInline values (types.rs 38-46).
Italic(t) == [kind |-> "Italic", text |-> t]
Bold(t) == [kind |-> "Bold", text |-> t]
BoldItalic(t) == [kind |-> "BoldItalic", text |-> t]
InlineCode(t) == [kind |-> "InlineCode", text |-> t]
Link(p) == [kind |-> "Link", text |-> p[1], url |-> p[2]]
Image(p) == [kind |-> "Image", text |-> p[1], url |-> p[2]]
Plaintext(t) == [kind |-> "Plaintext", text |-> t]

parse_markdown_inline(input) ==
    LET italic(r) == IF r.ok THEN Ok(r.rest, Italic(r.val)) ELSE r
        bold(r) == IF r.ok THEN Ok(r.rest, Bold(r.val)) ELSE r
        bold_italic(r) == IF r.ok THEN Ok(r.rest, BoldItalic(r.val)) ELSE r
        inline_code(r) == IF r.ok THEN Ok(r.rest, InlineCode(r.val)) ELSE r
        image(r) == IF r.ok THEN Ok(r.rest, Image(r.val)) ELSE r
        link(r) == IF r.ok THEN Ok(r.rest, Link(r.val)) ELSE r
        plaintext(r) == IF r.ok THEN Ok(r.rest, Plaintext(r.val)) ELSE r
    IN  alt(italic(parse_italic(input)),
        alt(bold(parse_bold(input)),
        alt(bold_italic(parse_bold_italic(input)),
        alt(inline_code(parse_inline_code(input)),
        alt(image(parse_image(input)),
        alt(link(parse_link(input)),
            plaintext(parse_plaintext(input))))))))

\* many0(parse_markdown_inline): stops at the first error; a success that
\* consumed nothing is the error of many0 itself.
RECURSIVE many0_inline(_)
many0_inline(i) ==
    LET push(r, more) ==
            IF more.ok THEN Ok(more.rest, <<r.val>> \o more.val) ELSE Err(i)
        step(r) ==
            IF ~r.ok THEN Ok(i, <<>>)
            ELSE IF Len(r.rest) = Len(i) THEN Err(i)
            ELSE push(r, many0_inline(r.rest))
    IN  step(parse_markdown_inline(i))

\* A variant of parse_markdown_text_until_eol that also accepts the end of
\* the input in place of the line terminator.
parse_markdown_text_until_eol_or_eof(input) ==
    LET ended(a, b) ==
            IF b.ok THEN Ok(b.rest, a.val)
            ELSE IF a.rest = <<>> THEN Ok(a.rest, a.val)
            ELSE Err(input)
        text(a) == IF a.ok THEN ended(a, tag(NEWLINE, a.rest)) ELSE Err(input)
    IN  text(many0_inline(input))

parse_markdown_text_until_eol(input) ==
    LET ended(a, b) == IF b.ok THEN Ok(b.rest, a.val) ELSE Err(input)
        text(a) == IF a.ok THEN ended(a, tag(NEWLINE, a.rest)) ELSE Err(input)
    IN  text(many0_inline(input))

-----------------------------------------------------------------------------
(* Block grammar: parser.rs 14-17, 113-173; types.rs 4-35 *)

HEADING_CHAR == "#"
SPACE_STR == <<" ">>
UNKNOWN_LANGUAGE ==
    <<"_", "_", "U", "N", "K", "N", "O", "W", "N", "_",
      "L", "A", "N", "G", "U", "A", "G", "E", "_", "_">>

\* Markdown values (types.rs 4-10); a HeadingLevel is its u8 discriminant.
Heading(level, text) == [kind |-> "Heading", level |-> level, text |-> text]
OrderedList(items) == [kind |-> "OrderedList", items |-> items]
UnorderedList(items) == [kind |-> "UnorderedList", items |-> items]
Line(text) == [kind |-> "Line", text |-> text]
Codeblock(lang, code) == [kind |-> "Codeblock", lang |-> lang, code |-> code]

\* A variant of the conversion without the saturating arm.
HeadingLevel_from_unclamped(size) == size

\* impl From<usize> for HeadingLevel
HeadingLevel_from(size) ==
    CASE size = 1 -> 1
      [] size = 2 -> 2
      [] size = 3 -> 3
      [] size = 4 -> 4
      [] size = 5 -> 5
      [] size = 6 -> 6
      [] OTHER -> 6

is_heading_char(it) == it = HEADING_CHAR

parse_heading_tag(input) ==
    LET spaced(a, b) ==
            IF b.ok THEN Ok(b.rest, HeadingLevel_from(Len(a.val)))
            ELSE Err(input)
        hashes(a) ==
            IF a.ok THEN spaced(a, tag(SPACE_STR, a.rest)) ELSE Err(input)
    IN  hashes(take_while1(
            [k \in 1..Len(input) |-> is_heading_char(input[k])], input))

parse_heading(input) ==
    LET both(a, b) == IF b.ok THEN Ok(b.rest, <<a.val, b.val>>) ELSE Err(input)
        tagged(a) ==
            IF a.ok THEN both(a, parse_markdown_text_until_eol(a.rest))
            ELSE Err(input)
    IN  tagged(parse_heading_tag(input))

parse_unordered_list_tag(i) ==
    LET spaced(a, b) == IF b.ok THEN Ok(b.rest, a.val) ELSE Err(i)
        dash(a) == IF a.ok THEN spaced(a, tag(<<" ">>, a.rest)) ELSE Err(i)
    IN  dash(tag(<<"-">>, i))

parse_unordered_list_element(i) ==
    LET text(b) == IF b.ok THEN b ELSE Err(i)
        tagged(a) ==
            IF a.ok THEN text(parse_markdown_text_until_eol(a.rest)) ELSE Err(i)
    IN  tagged(parse_unordered_list_tag(i))

\* The loop of many1 after its first element: stops at the first error; a
\* success that consumed nothing is the error of many1 itself.
RECURSIVE more_unordered_list_elements(_)
more_unordered_list_elements(i) ==
    LET push(r, more) ==
            IF more.ok THEN Ok(more.rest, <<r.val>> \o more.val) ELSE Err(i)
        step(r) ==
            IF ~r.ok THEN Ok(i, <<>>)
            ELSE IF Len(r.rest) = Len(i) THEN Err(i)
            ELSE push(r, more_unordered_list_elements(r.rest))
    IN  step(parse_unordered_list_element(i))

\* many1(parse_unordered_list_element)
parse_unordered_list(i) ==
    LET push(first, more) ==
            IF more.ok THEN Ok(more.rest, <<first.val>> \o more.val)
            ELSE Err(i)
        many1(first) ==
            IF first.ok
            THEN push(first, more_unordered_list_elements(first.rest))
            ELSE Err(i)
    IN  many1(parse_unordered_list_element(i))

is_digit_as_u8(d) == is_digit(as_u8(d))

parse_ordered_list_tag(i) ==
    LET spaced(a, c) == IF c.ok THEN Ok(c.rest, a.val) ELSE Err(i)
        dotted(a, b) == IF b.ok THEN spaced(a, tag(<<" ">>, b.rest)) ELSE Err(i)
        digits(a) == IF a.ok THEN dotted(a, tag(<<".">>, a.rest)) ELSE Err(i)
    IN  digits(take_while1([k \in 1..Len(i) |-> is_digit_as_u8(i[k])], i))

parse_ordered_list_element(i) ==
    LET text(b) == IF b.ok THEN b ELSE Err(i)
        tagged(a) ==
            IF a.ok THEN text(parse_markdown_text_until_eol(a.rest)) ELSE Err(i)
    IN  tagged(parse_ordered_list_tag(i))

RECURSIVE more_ordered_list_elements(_)
more_ordered_list_elements(i) ==
    LET push(r, more) ==
            IF more.ok THEN Ok(more.rest, <<r.val>> \o more.val) ELSE Err(i)
        step(r) ==
            IF ~r.ok THEN Ok(i, <<>>)
            ELSE IF Len(r.rest) = Len(i) THEN Err(i)
            ELSE push(r, more_ordered_list_elements(r.rest))
    IN  step(parse_ordered_list_element(i))

\* many1(parse_ordered_list_element)
parse_ordered_list(i) ==
    LET push(first, more) ==
            IF more.ok THEN Ok(more.rest, <<first.val>> \o more.val)
            ELSE Err(i)
        many1(first) ==
            IF first.ok
            THEN push(first, more_ordered_list_elements(first.rest))
            ELSE Err(i)
    IN  many1(parse_ordered_list_element(i))

\* A variant of parse_code_block_body whose closing fence takes the line
\* terminator after it.
parse_code_block_body_eol(input) ==
    delimited_is_not(NEWLINE, FENCE, FENCE \o NEWLINE, input)

parse_code_block_body(input) == delimited_is_not(NEWLINE, FENCE, FENCE, input)

\* A variant of parse_code_block_lang whose second alternative yields the
\* empty string.
parse_code_block_lang_empty(input) ==
    LET unknown(f) == IF f.ok THEN Ok(f.rest, <<>>) ELSE f
        named(p) == IF p.ok THEN p ELSE Err(input)
        preceded(f) == IF f.ok THEN named(parse_plaintext(f.rest)) ELSE f
    IN  alt(preceded(tag(FENCE, input)), unknown(tag(FENCE, input)))

parse_code_block_lang(input) ==
    LET unknown(f) == IF f.ok THEN Ok(f.rest, UNKNOWN_LANGUAGE) ELSE f
        named(p) == IF p.ok THEN p ELSE Err(input)
        preceded(f) == IF f.ok THEN named(parse_plaintext(f.rest)) ELSE f
    IN  alt(preceded(tag(FENCE, input)), unknown(tag(FENCE, input)))

parse_code_block(input) ==
    LET both(a, b) == IF b.ok THEN Ok(b.rest, <<a.val, b.val>>) ELSE Err(input)
        lang(a) ==
            IF a.ok THEN both(a, parse_code_block_body(a.rest)) ELSE Err(input)
    IN  lang(parse_code_block_lang(input))

\* A variant of the alternative whose plain-line branch does not require
\* the line terminator.
parse_markdown_alt_unterminated(input) ==
    LET heading(r) ==
            IF r.ok THEN Ok(r.rest, Heading(r.val[1], r.val[2])) ELSE r
        unordered_list(r) == IF r.ok THEN Ok(r.rest, UnorderedList(r.val)) ELSE r
        ordered_list(r) == IF r.ok THEN Ok(r.rest, OrderedList(r.val)) ELSE r
        codeblock(r) ==
            IF r.ok THEN Ok(r.rest, Codeblock(r.val[1], r.val[2])) ELSE r
        line(r) == IF r.ok THEN Ok(r.rest, Line(r.val)) ELSE r
    IN  alt(heading(parse_heading(input)),
        alt(unordered_list(parse_unordered_list(input)),
        alt(ordered_list(parse_ordered_list(input)),
        alt(codeblock(parse_code_block(input)),
            line(many0_inline(input))))))

\* The alt((...)) that many0 repeats inside parse_markdown.
parse_markdown_alt(input) ==
    LET heading(r) ==
            IF r.ok THEN Ok(r.rest, Heading(r.val[1], r.val[2])) ELSE r
        unordered_list(r) == IF r.ok THEN Ok(r.rest, UnorderedList(r.val)) ELSE r
        ordered_list(r) == IF r.ok THEN Ok(r.rest, OrderedList(r.val)) ELSE r
        codeblock(r) ==
            IF r.ok THEN Ok(r.rest, Codeblock(r.val[1], r.val[2])) ELSE r
        line(r) == IF r.ok THEN Ok(r.rest, Line(r.val)) ELSE r
    IN  alt(heading(parse_heading(input)),
        alt(unordered_list(parse_unordered_list(input)),
        alt(ordered_list(parse_ordered_list(input)),
        alt(codeblock(parse_code_block(input)),
            line(parse_markdown_text_until_eol(input))))))

-----------------------------------------------------------------------------
(* Translator: translator.rs 3-93 *)

\* Display of an unsigned integer inside format!.
DIGITS == <<"0", "1", "2", "3", "4", "5", "6", "7", "8", "9">>

RECURSIVE to_string(_)
to_string(n) ==
    IF n < 10 THEN <<DIGITS[n + 1]>>
    ELSE to_string(n \div 10) \o <<DIGITS[(n % 10) + 1]>>

\* A variant of translate_boldtext emitting <strong>.
translate_boldtext_strong(boldtext) ==
    <<"<", "s", "t", "r", "o", "n", "g", ">">> \o boldtext
        \o <<"<", "/", "s", "t", "r", "o", "n", "g", ">">>

translate_boldtext(boldtext) ==
    <<"<", "b", ">">> \o boldtext \o <<"<", "/", "b", ">">>

translate_italic(italic) ==
    <<"<", "i", ">">> \o italic \o <<"<", "/", "i", ">">>

translate_inline_code(code) ==
    <<"<", "c", "o", "d", "e", ">">> \o code
        \o <<"<", "/", "c", "o", "d", "e", ">">>

translate_link(text, url) ==
    <<"<", "a", " ", "h", "r", "e", "f", "=", "\"">> \o url
        \o <<"\"", ">">> \o text \o <<"<", "/", "a", ">">>

translate_image(text, url) ==
    <<"<", "i", "m", "g", " ", "s", "r", "c", "=", "\"">> \o url
        \o <<"\"", " ", "a", "l", "t", "=", "\"">> \o text
        \o <<"\"", " ", "/", ">">>

translate_inline(part) ==
    CASE part.kind = "Bold" -> translate_boldtext(part.text)
      [] part.kind = "Italic" -> translate_italic(part.text)
      [] part.kind = "BoldItalic" ->
            translate_italic(translate_boldtext(part.text))
      [] part.kind = "InlineCode" -> translate_inline_code(part.text)
      [] part.kind = "Link" -> translate_link(part.text, part.url)
      [] part.kind = "Image" -> translate_image(part.text, part.url)
      [] part.kind = "Plaintext" -> part.text

\* An escaping variant of translate_text: "<" becomes "&lt;".
RECURSIVE escape_lt(_)
escape_lt(t) ==
    IF t = <<>> THEN <<>>
    ELSE (IF Head(t) = "<" THEN <<"&", "l", "t", ";">> ELSE <<Head(t)>>)
            \o escape_lt(Tail(t))

translate_text_escaping(text) ==
    Concat([k \in 1..Len(text) |->
        IF text[k].kind = "Plaintext" THEN escape_lt(text[k].text)
        ELSE translate_inline(text[k])])

translate_text(text) ==
    Concat([k \in 1..Len(text) |-> translate_inline(text[k])])

translate_list_elements(lines) ==
    Concat([k \in 1..Len(lines) |->
        <<"<", "l", "i", ">">> \o translate_text(lines[k])
            \o <<"<", "/", "l", "i", ">">>])

translate_header(size, text) ==
    <<"<", "h">> \o to_string(size) \o <<">">> \o translate_text(text)
        \o <<"<", "/", "h">> \o to_string(size) \o <<">">>

translate_unordered_list(lines) ==
    <<"<", "u", "l", ">">> \o translate_list_elements(lines)
        \o <<"<", "/", "u", "l", ">">>

translate_ordered_list(lines) ==
    <<"<", "o", "l", ">">> \o translate_list_elements(lines)
        \o <<"<", "/", "o", "l", ">">>

\* A variant of translate_codeblock that renders the body as inline text.
translate_codeblock_inline(lang, code) ==
    LET html(parsed) ==
            <<"<", "p", "r", "e", ">", "<", "c", "o", "d", "e", " ", "c", "l",
              "a", "s", "s", "=", "\"", "l", "a", "n", "g", "-">> \o lang
                \o <<"\"", ">">> \o translate_text(parsed.val) \o parsed.rest
                \o <<"<", "/", "c", "o", "d", "e", ">", "<", "/", "p", "r", "e", ">">>
    IN  html(many0_inline(code))

translate_codeblock(lang, code) ==
    <<"<", "p", "r", "e", ">", "<", "c", "o", "d", "e", " ", "c", "l",
      "a", "s", "s", "=", "\"", "l", "a", "n", "g", "-">> \o lang
        \o <<"\"", ">">> \o code
        \o <<"<", "/", "c", "o", "d", "e", ">", "<", "/", "p", "r", "e", ">">>

\* A variant of translate_line that wraps an empty rendering too.
translate_line_always(text) ==
    <<"<", "p", ">">> \o translate_text(text) \o <<"<", "/", "p", ">">>

translate_line(text) ==
    LET paragraph(line) ==
            IF line # <<>> THEN <<"<", "p", ">">> \o line \o <<"<", "/", "p", ">">>
            ELSE line
    IN  paragraph(translate_text(text))

translate_block(bit) ==
    CASE bit.kind = "Heading" -> translate_header(bit.level, bit.text)
      [] bit.kind = "UnorderedList" -> translate_unordered_list(bit.items)
      [] bit.kind = "OrderedList" -> translate_ordered_list(bit.items)
      [] bit.kind = "Codeblock" -> translate_codeblock(bit.lang, bit.code)
      [] bit.kind = "Line" -> translate_line(bit.text)

translate(m) == Concat([k \in 1..Len(m) |-> translate_block(m[k])])

\* The fixed string render_markdown returns on Err.
FALLBACK ==
    <<"S", "o", "r", "r", "y", ",", " ", "t", "h", "i", "s", " ", "d", "i",
      "d", " ", "n", "o", "t", " ", "s", "e", "e", "m", " ", "t", "o", " ",
      "w", "o", "r", "k", "!", " ", "M", "a", "y", "b", "e", " ", "y", "o",
      "u", "r", " ", "m", "a", "r", "k", "d", "o", "w", "n", " ", "w", "a",
      "s", " ", "n", "o", "t", " ", "w", "e", "l", "l", " ", "f", "o", "r",
      "m", "e", "d", ",", " ", "h", "a", "v", "e", " ", "y", "o", "u", " ",
      "h", "i", "t", " ", "[", "E", "n", "t", "e", "r", "]", " ", "a", "f",
      "t", "e", "r", " ", "y", "o", "u", "r", " ", "l", "a", "s", "t", " ",
      "l", "i", "n", "e", "?">>

-----------------------------------------------------------------------------
(* Inputs *)

MaxTokens == 4
MaxLines == 3
MaxBodyLen == 3
MaxEmphLen == 7
MaxHashes == 7
MaxHeadTail == 3
MaxInlines == 2
MaxItems == 2
MaxBlocks == 2
MaxLineLen == 4
MaxPayload == 2
MaxOrdLen == 4
MaxLangLen == 3
MaxPlainLen == 4
MaxRunTokens == 3

\* All sequences over S of length at most n.
Seqs(S, n) == UNION {[1..k -> S] : k \in 0..n}

\* Documents: every concatenation of at most MaxTokens of these pieces.
DocTokens ==
    {<<"#", " ">>, <<"-", " ">>, <<"1", ".", " ">>, <<"a">>, <<"_">>, <<"*">>,
     <<"<">>, <<"\n">>}
DocInputs == {Concat(ts) : ts \in Seqs(DocTokens, MaxTokens)}

\* Lists: at most MaxLines terminated lines, each an optional list marker
\* and a short text.
ListMarkers == {<<>>, <<"-", " ">>, <<"1", ".", " ">>}
ListTexts == {<<>>, <<"a">>, <<"_">>}
ListLines == {m \o t \o NEWLINE : m \in ListMarkers, t \in ListTexts}
ListInputs == {Concat(ls) : ls \in Seqs(ListLines, MaxLines)}

\* Fenced code: an optional leading line, an opening fence, an optional language tag, a newline, a
\* body of at most MaxBodyLen characters, a closing fence, an optional
\* trailing newline.
CodeInputs ==
    {lead \o FENCE \o lang \o NEWLINE \o body \o FENCE \o tail :
        lead \in {<<>>, <<"a", "\n">>},
        lang \in {<<>>, <<"a">>},
        body \in Seqs({"a", "*", BACKTICK, "\n"}, MaxBodyLen),
        tail \in {<<>>, NEWLINE}}

\* Emphasis: every string over the two delimiters and a letter.
EmphInputs == Seqs({"*", "_", "a"}, MaxEmphLen)

\* Headings: a run of hashes and a short tail.
HeadInputs ==
    {Repeat(<<"#">>, n) \o t :
        n \in 0..MaxHashes, t \in Seqs({" ", "a", "\n"}, MaxHeadTail)}

\* Trees handed to translate: inline sequences of every node kind, lists
\* of a few items, and sequences of a few blocks.
A == <<"a">>
B == <<"b">>
InlineNodes ==
    {Italic(A), Bold(A), BoldItalic(A), InlineCode(A), Link(<<A, B>>),
     Image(<<A, B>>), Plaintext(A)}
Texts == Seqs(InlineNodes, MaxInlines)
ItemTexts == {<<>>, <<Plaintext(A)>>, <<Bold(A), Plaintext(B)>>}
Items == Seqs(ItemTexts, MaxItems)
SampleBlocks ==
    {Heading(1, <<Plaintext(A)>>), Heading(6, <<>>), Line(<<>>),
     Line(<<Italic(A)>>), UnorderedList(<<<<Plaintext(A)>>>>),
     OrderedList(<<<<Plaintext(B)>>>>), Codeblock(A, B)}
Trees ==
    {<<Line(t)>> : t \in Texts}
        \cup {<<Heading(l, t)>> : l \in 1..6, t \in Seqs(InlineNodes, 1)}
        \cup {<<UnorderedList(it)>> : it \in Items}
        \cup {<<OrderedList(it)>> : it \in Items}
        \cup Seqs(SampleBlocks, MaxBlocks)

\* Lines: documents of blank and plain lines, and single Line blocks whose
\* inline nodes may render to nothing.
LineInputs == Seqs({"\n", "a"}, MaxLineLen)
LineNodes == {Plaintext(<<>>), Plaintext(A), Italic(A)}
LineTrees == {<<Line(t)>> : t \in Seqs(LineNodes, MaxInlines)}

\* Inline spans: an opening delimiter, a short payload that may hold
\* delimiter characters, a closing delimiter, an optional line terminator;
\* and links and images with a short label and target.
SpanDelims ==
    {<<"*">>, STARS2, STARS3, <<"_">>, UNDERS2, UNDERS3, <<BACKTICK>>}
SpanPayloads == Seqs({"a", "*", "_", BACKTICK, "]", ")"}, MaxPayload)
LinkPayloads == Seqs({"a", "]", ")"}, MaxPayload)
InlineInputs ==
    {o \o p \o c \o e :
        o \in SpanDelims, p \in SpanPayloads, c \in SpanDelims,
        e \in {<<>>, NEWLINE}}
    \cup
    {o \o p \o <<"]", "(">> \o q \o <<")">> \o e :
        o \in {<<"[">>, <<"!", "[">>}, p \in LinkPayloads,
        q \in LinkPayloads, e \in {<<>>, NEWLINE}}

\* Ordered-list markers: short strings over two digits, the non-ASCII
\* character U+0130, the dot, the space, a letter and the line terminator.
OrdInputs == Seqs({"1", "2", "U+0130", ".", " ", "a", "\n"}, MaxOrdLen)

\* Language tags: an opening fence, a short string of plain and special
\* characters, and nothing, or a body and a closing fence with or without
\* the line terminator before the body.
LangInputs ==
    {FENCE \o l \o t :
        l \in Seqs({"a", "!", "[", "*", "\n", BACKTICK}, MaxLangLen),
        t \in {<<>>, <<"\n", "a">> \o FENCE, <<"a">> \o FENCE}}

\* Plain runs: short strings of plain characters and of the characters
\* the patterns that stop plaintext are made of.
PlainInputs == Seqs({"a", "_", "!", "[", "*", BACKTICK, "\n"}, MaxPlainLen)

\* Lines of plain characters and emphasis spans: at most MaxRunTokens of
\* these pieces, with or without the line terminator.
RunTokens ==
    {<<"a">>, <<"!">>, <<"_">>, <<"*">>,
     <<"_", "a", "_">>, UNDERS2 \o <<"a">> \o UNDERS2,
     UNDERS3 \o <<"a">> \o UNDERS3,
     <<"*", "a", "*">>, STARS2 \o <<"a">> \o STARS2,
     STARS3 \o <<"a">> \o STARS3,
     <<"[", "a", "]", "(", "a", ")">>}
RunInputs ==
    {Concat(ts) \o e :
        ts \in Seqs(RunTokens, MaxRunTokens), e \in {<<>>, NEWLINE}}

-----------------------------------------------------------------------------
(* State machine *)

NoCall == [ok |-> FALSE, rest |-> <<>>, val |-> <<>>]

InitWith(inputs, trees) ==
    /\ md \in inputs
    /\ tree \in trees
    /\ pc = "start"
    /\ rest = md
    /\ blocks = <<>>
    /\ out = <<>>
    /\ fn = "none"
    /\ res = NoCall

Init == InitWith(DocInputs, {<<>>})
InitList == InitWith(ListInputs, {<<>>})
InitCode == InitWith(CodeInputs, {<<>>})
InitEmph == InitWith(EmphInputs, {<<>>})
InitHead == InitWith(HeadInputs, {<<>>})
InitTree == InitWith({<<>>}, Trees)
InitLine == InitWith(LineInputs, LineTrees)
InitInline == InitWith(InlineInputs, {<<>>})
InitOrd == InitWith(OrdInputs, {<<>>})
InitLang == InitWith(LangInputs, {<<>>})
InitPlain == InitWith(PlainInputs, {<<>>})
InitRun == InitWith(RunInputs, {<<>>})

\* One iteration of the many0 loop of parse_markdown, as render_markdown
\* runs it: an error of the alternative ends the loop with Ok((i, acc)); a
\* success that consumed nothing is Err; otherwise the block is pushed.
Many0Step ==
    /\ pc \in {"start", "many0"}
    /\ LET step(r) ==
               IF ~r.ok
               THEN /\ pc' = "parsed"
                    /\ UNCHANGED <<rest, blocks>>
               ELSE IF Len(r.rest) = Len(rest)
               THEN /\ pc' = "failed"
                    /\ UNCHANGED <<rest, blocks>>
               ELSE /\ pc' = "many0"
                    /\ rest' = r.rest
                    /\ blocks' = Append(blocks, r.val)
       IN  step(parse_markdown_alt(rest))
    /\ UNCHANGED <<md, tree, out, fn, res>>

\* The match of render_markdown on the result of parse_markdown: the
\* remaining input of Ok is bound to _ and dropped.
RenderMatch ==
    /\ pc \in {"parsed", "failed"}
    /\ out' = IF pc = "parsed" THEN translate(blocks) ELSE FALLBACK
    /\ pc' = "done"
    /\ UNCHANGED <<md, tree, rest, blocks, fn, res>>

\* A direct call of a public recognizer on md.
Call(name, result) ==
    /\ pc = "start"
    /\ fn' = name
    /\ res' = result
    /\ pc' = "called"
    /\ UNCHANGED <<md, tree, rest, blocks, out>>

CallParseItalic == Call("parse_italic", parse_italic(md))
CallParseBold == Call("parse_bold", parse_bold(md))
CallParsePlaintext == Call("parse_plaintext", parse_plaintext(md))
CallParseMarkdownInline ==
    Call("parse_markdown_inline", parse_markdown_inline(md))
CallParseMarkdownTextUntilEol ==
    Call("parse_markdown_text_until_eol", parse_markdown_text_until_eol(md))
CallParseHeading == Call("parse_heading", parse_heading(md))
CallParseUnorderedList ==
    Call("parse_unordered_list", parse_unordered_list(md))
CallParseOrderedListTag ==
    Call("parse_ordered_list_tag", parse_ordered_list_tag(md))
CallParseOrderedList == Call("parse_ordered_list", parse_ordered_list(md))
CallParseCodeBlock == Call("parse_code_block", parse_code_block(md))

\* A direct call of translate on tree.
CallTranslate ==
    /\ pc = "start"
    /\ fn' = "translate"
    /\ out' = translate(tree)
    /\ pc' = "called"
    /\ UNCHANGED <<md, tree, rest, blocks, res>>

Next ==
    \/ Many0Step
    \/ RenderMatch
    \/ CallParseItalic
    \/ CallParseBold
    \/ CallParsePlaintext
    \/ CallParseMarkdownInline
    \/ CallParseMarkdownTextUntilEol
    \/ CallParseHeading
    \/ CallParseUnorderedList
    \/ CallParseOrderedListTag
    \/ CallParseOrderedList
    \/ CallParseCodeBlock
    \/ CallTranslate

Spec == Init /\ [][Next]_vars
SpecList == InitList /\ [][Next]_vars
SpecCode == InitCode /\ [][Next]_vars
SpecEmph == InitEmph /\ [][Next]_vars
SpecHead == InitHead /\ [][Next]_vars
SpecTree == InitTree /\ [][Next]_vars
SpecLine == InitLine /\ [][Next]_vars
SpecInline == InitInline /\ [][Next]_vars
SpecOrd == InitOrd /\ [][Next]_vars
SpecLang == InitLang /\ [][Next]_vars
SpecPlain == InitPlain /\ [][Next]_vars
SpecRun == InitRun /\ [][Next]_vars


-----------------------------------------------------------------------------
(* Properties *)

HasNewline(s) == "\n" \in Chars(s)

\* The least index k >= from at which t occurs in s, or 0.
FirstIndex(s, t, from) ==
    LET hits == {k \in from..(Len(s) - Len(t) + 1) :
                    SubSeq(s, k, k + Len(t) - 1) = t}
    IN  IF hits = {} THEN 0 ELSE CHOOSE k \in hits : \A j \in hits : k <= j

Contains(s, t) == FirstIndex(s, t, 1) # 0

\* C1: for every input whose last logical line has no trailing line
\* terminator, render_markdown returns exactly the fixed fallback string.
C1_FallbackWhenUnterminated ==
    (pc = "done" /\ md # <<>> /\ md[Len(md)] # "\n") => out = FALLBACK

\* C2: render_markdown is all-or-nothing: its result is the fallback string
\* or the translation of a parse that consumed the entire input.
C2_AllOrNothing ==
    pc = "done" => (out = FALLBACK \/ (rest = <<>> /\ out = translate(blocks)))

\* C3: parse_markdown_text_until_eol succeeds on every input that contains
\* a line terminator and fails only when the input contains none.
C3_PlainLineSucceedsIffNewline ==
    fn = "parse_markdown_text_until_eol" => (res.ok <=> HasNewline(md))

\* The input form of C4: fence, optional language tag, newline, a body
\* without three consecutive backticks, fence.
FencedNewline(s) == FirstIndex(s, NEWLINE, 4)
FencedLang(s) == SubSeq(s, 4, FencedNewline(s) - 1)
FencedBody(s) == SubSeq(s, FencedNewline(s) + 1, Len(s) - 3)
IsFencedForm(s) ==
    /\ StartsWith(s, FENCE)
    /\ FencedNewline(s) # 0
    /\ Len(s) >= FencedNewline(s) + 3
    /\ Drop(s, Len(s) - 3) = FENCE
    /\ FencedLang(s) \in {<<>>, <<"a">>}
    /\ ~Contains(FencedBody(s), FENCE)

\* The characters between the first newline after the opening fence and
\* the first triple backtick after it.
FirstFencedBody(s) ==
    SubSeq(s, FencedNewline(s) + 1,
           FirstIndex(s, FENCE, FencedNewline(s) + 1) - 1)

\* C4: on every input of the fenced form (bodies with one or two backticks
\* and the empty body included) parse_code_block succeeds and returns as
\* body the characters between the first newline after the opening fence
\* and the first closing fence.
C4_CodeBlockBodyUpToFence ==
    (fn = "parse_code_block" /\ IsFencedForm(md)) =>
        (res.ok /\ res.val[2] = FirstFencedBody(md))

\* The emphasis form of C5 with delimiter character d: a run of n <= 3
\* characters d, a non-empty payload without d, and d again n times.
LeadRun(s, d) == PrefixLen([k \in 1..Len(s) |-> s[k] = d], s)
EmphPayload(s, d) ==
    LET body == Drop(s, LeadRun(s, d))
    IN  Take(body, PrefixLen([k \in 1..Len(body) |-> body[k] # d], body))
EmphSpanLen(s, d) == 2 * LeadRun(s, d) + Len(EmphPayload(s, d))
IsEmphForm(s, d) ==
    /\ LeadRun(s, d) \in 1..3
    /\ EmphPayload(s, d) # <<>>
    /\ StartsWith(Drop(s, LeadRun(s, d) + Len(EmphPayload(s, d))),
                  Repeat(<<d>>, LeadRun(s, d)))
EmphNode(n, p) ==
    CASE n = 1 -> Italic(p)
      [] n = 2 -> Bold(p)
      [] n = 3 -> BoldItalic(p)

\* C5: parse_markdown_inline yields Italic(p) on *p*, Bold(p) on **p** and
\* BoldItalic(p) on ***p*** (likewise with underscores), consuming exactly
\* the delimited span; parse_italic fails on an input starting with two
\* identical delimiter characters and parse_bold on one starting with three.
C5_EmphasisByPriority ==
    /\ \A d \in {"*", "_"} :
        (fn = "parse_markdown_inline" /\ IsEmphForm(md, d)) =>
            res = Ok(Drop(md, EmphSpanLen(md, d)),
                     EmphNode(LeadRun(md, d), EmphPayload(md, d)))
    /\ \A d \in {"*", "_"} :
        (fn = "parse_italic" /\ StartsWith(md, <<d, d>>)) => ~res.ok
    /\ \A d \in {"*", "_"} :
        (fn = "parse_bold" /\ StartsWith(md, <<d, d, d>>)) => ~res.ok

\* C5 witness: the triple-delimiter span was parsed as BoldItalic.
C5_Witness ==
    /\ fn = "parse_markdown_inline"
    /\ md = <<"*", "*", "*", "a", "*", "*", "*">>
    /\ res = Ok(<<>>, BoldItalic(<<"a">>))

\* The heading form of C6: n >= 1 hashes, one space, a plain run t without
\* line terminator, a line terminator.
HeadRest(s) == Drop(s, LeadRun(s, "#") + 1)
HeadText(s) == Take(HeadRest(s), FirstIndex(HeadRest(s), NEWLINE, 1) - 1)
IsHeadForm(s) ==
    /\ LeadRun(s, "#") >= 1
    /\ StartsWith(Drop(s, LeadRun(s, "#")), SPACE_STR)
    /\ HasNewline(HeadRest(s))
    /\ Chars(HeadText(s)) \subseteq {" ", "a"}
Min(a, b) == IF a <= b THEN a ELSE b
PlainSeq(t) == IF t = <<>> THEN <<>> ELSE <<Plaintext(t)>>
LevelDigit(l) == <<DIGITS[l + 1]>>

\* C6: n hashes, one space, an inline sequence and a line terminator parse
\* to Heading(min(n, 6), inlines), never a failure, and render as <hL>..</hL>
\* with the same L in 1..6 in both tags.
C6_HeadingLevelClamped ==
    /\ (fn = "parse_heading" /\ IsHeadForm(md)) =>
           res = Ok(Drop(HeadRest(md), Len(HeadText(md)) + 1),
                    <<Min(LeadRun(md, "#"), 6), PlainSeq(HeadText(md))>>)
    /\ (pc = "done" /\ IsHeadForm(md)) =>
           /\ blocks[1] = Heading(Min(LeadRun(md, "#"), 6),
                                  PlainSeq(HeadText(md)))
           /\ blocks[1].level \in 1..6
           /\ StartsWith(out,
                  <<"<", "h">> \o LevelDigit(blocks[1].level) \o <<">">>
                      \o HeadText(md)
                      \o <<"<", "/", "h">> \o LevelDigit(blocks[1].level)
                      \o <<">">>)

\* C6 witness: seven hashes were parsed and rendered as a level 6 heading.
C6_Witness ==
    /\ pc = "done"
    /\ md = <<"#", "#", "#", "#", "#", "#", "#", " ", "a", "\n">>
    /\ blocks = <<Heading(6, <<Plaintext(<<"a">>)>>)>>
    /\ out = <<"<", "h", "6", ">", "a", "<", "/", "h", "6", ">">>

\* The terminated lines of s, each with its line terminator; text after
\* the last terminator is not a line.
RECURSIVE SplitLines(_)
SplitLines(s) ==
    LET n == FirstIndex(s, NEWLINE, 1)
    IN  IF n = 0 THEN <<>> ELSE <<Take(s, n)>> \o SplitLines(Drop(s, n))

\* A line that, on its own, matches the item pattern.
IsUnorderedItemLine(l) ==
    LET r == parse_unordered_list_element(l) IN r.ok /\ r.rest = <<>>
IsOrderedItemLine(l) ==
    LET r == parse_ordered_list_element(l) IN r.ok /\ r.rest = <<>>


IsList(b) == b.kind \in {"UnorderedList", "OrderedList"}

\* C7: a maximal run of k >= 1 consecutive lines that each match the item
\* pattern is parsed into exactly one list block with k entries in source
\* order (the run at the start of the document is the first block); a
\* parsed document never holds two adjacent lists of the same kind.
C7_ListGrouping ==
    pc = "parsed" =>
        LET ls == SplitLines(md)
            ku == PrefixLen(
                      [k \in 1..Len(ls) |-> IsUnorderedItemLine(ls[k])], ls)
            ko == PrefixLen(
                      [k \in 1..Len(ls) |-> IsOrderedItemLine(ls[k])], ls)
        IN  /\ ku >= 1 =>
                /\ blocks # <<>>
                /\ blocks[1] = UnorderedList(
                       [k \in 1..ku |-> parse_unordered_list_element(ls[k]).val])
            /\ ko >= 1 =>
                /\ blocks # <<>>
                /\ blocks[1] = OrderedList(
                       [k \in 1..ko |-> parse_ordered_list_element(ls[k]).val])
            /\ \A k \in 1..(Len(blocks) - 1) :
                   ~(IsList(blocks[k]) /\ blocks[k].kind = blocks[k + 1].kind)

IsSlice(t, s) ==
    \E o \in 1..(Len(s) - Len(t) + 1) : SubSeq(s, o, o + Len(t) - 1) = t

CodeHtml(lang, body) ==
    <<"<", "p", "r", "e", ">", "<", "c", "o", "d", "e", " ", "c", "l", "a",
      "s", "s", "=", "\"", "l", "a", "n", "g", "-">> \o lang \o <<"\"", ">">>
        \o body
        \o <<"<", "/", "c", "o", "d", "e", ">", "<", "/", "p", "r", "e", ">">>

\* C8: the body of every Codeblock that parse_markdown produces is a
\* contiguous slice of the source, and render_markdown emits it unchanged
\* as <pre><code class="lang-{lang}">{body}</code></pre> between the
\* renderings of the blocks before and after it.
C8_CodeblockBodyVerbatim ==
    pc = "done" =>
        \A k \in 1..Len(blocks) :
            blocks[k].kind = "Codeblock" =>
                /\ IsSlice(blocks[k].code, md)
                /\ out = translate(SubSeq(blocks, 1, k - 1))
                            \o CodeHtml(blocks[k].lang, blocks[k].code)
                            \o translate(SubSeq(blocks, k + 1, Len(blocks)))

\* C8 witness: a body that looks like emphasis was rendered verbatim.
C8_Witness ==
    /\ pc = "done"
    /\ md = FENCE \o <<"a", "\n", "*", "a", "*">> \o FENCE
    /\ blocks = <<Codeblock(<<"a">>, <<"*", "a", "*">>)>>
    /\ out = <<"<", "p", "r", "e", ">", "<", "c", "o", "d", "e", " ", "c",
               "l", "a", "s", "s", "=", "\"", "l", "a", "n", "g", "-", "a",
               "\"", ">", "*", "a", "*", "<", "/", "c", "o", "d", "e", ">",
               "<", "/", "p", "r", "e", ">">>

\* The document form of C9: one terminated line t, non-empty, holding no
\* star, backtick, opening bracket or line terminator.
LineOf(s) == Take(s, Len(s) - 1)
IsPlainLineDoc(s) ==
    /\ Len(s) >= 2
    /\ s[Len(s)] = "\n"
    /\ Chars(LineOf(s)) \cap {"*", BACKTICK, "[", "\n"} = {}
Paragraph(t) == <<"<", "p", ">">> \o t \o <<"<", "/", "p", ">">>

BeginsWithHeadingMarker(t) ==
    /\ LeadRun(t, "#") >= 1
    /\ StartsWith(Drop(t, LeadRun(t, "#")), <<" ">>)
BeginsWithUnorderedMarker(t) == StartsWith(t, <<"-", " ">>)
BeginsWithOrderedMarker(t) ==
    LET n == PrefixLen([k \in 1..Len(t) |-> is_digit_as_u8(t[k])], t)
    IN  n >= 1 /\ StartsWith(Drop(t, n), <<".", " ">>)

\* C9 as stated: every such line renders as <p>t</p>.
C9_Original ==
    (pc = "done" /\ IsPlainLineDoc(md)) => out = Paragraph(LineOf(md))

\* C9 as amended: every such line that does not begin with an underscore,
\* a heading marker, an unordered-list marker or an ordered-list marker
\* renders as <p>t</p>, t unchanged.
C9_PlainLineVerbatim ==
    (/\ pc = "done"
     /\ IsPlainLineDoc(md)
     /\ md[1] # "_"
     /\ ~BeginsWithHeadingMarker(LineOf(md))
     /\ ~BeginsWithUnorderedMarker(LineOf(md))
     /\ ~BeginsWithOrderedMarker(LineOf(md)))
        => out = Paragraph(LineOf(md))

\* C9 witness: a line holding "<" was rendered unescaped.
C9_Witness ==
    /\ pc = "done"
    /\ md = <<"<", "a", "_", "\n">>
    /\ out = <<"<", "p", ">", "<", "a", "_", "<", "/", "p", ">">>

\* The renderings of the table of section 4.4, node by node.
TableInline(n) ==
    CASE n.kind = "Bold" ->
            <<"<", "b", ">">> \o n.text \o <<"<", "/", "b", ">">>
      [] n.kind = "Italic" ->
            <<"<", "i", ">">> \o n.text \o <<"<", "/", "i", ">">>
      [] n.kind = "BoldItalic" ->
            <<"<", "i", ">", "<", "b", ">">> \o n.text
                \o <<"<", "/", "b", ">", "<", "/", "i", ">">>
      [] n.kind = "InlineCode" ->
            <<"<", "c", "o", "d", "e", ">">> \o n.text
                \o <<"<", "/", "c", "o", "d", "e", ">">>
      [] n.kind = "Link" ->
            <<"<", "a", " ", "h", "r", "e", "f", "=", "\"">> \o n.url
                \o <<"\"", ">">> \o n.text \o <<"<", "/", "a", ">">>
      [] n.kind = "Image" ->
            <<"<", "i", "m", "g", " ", "s", "r", "c", "=", "\"">> \o n.url
                \o <<"\"", " ", "a", "l", "t", "=", "\"">> \o n.text
                \o <<"\"", " ", "/", ">">>
      [] n.kind = "Plaintext" -> n.text

RECURSIVE TableText(_)
TableText(t) ==
    IF t = <<>> THEN <<>> ELSE TableInline(Head(t)) \o TableText(Tail(t))

RECURSIVE TableItems(_)
TableItems(its) ==
    IF its = <<>> THEN <<>>
    ELSE <<"<", "l", "i", ">">> \o TableText(Head(its))
            \o <<"<", "/", "l", "i", ">">> \o TableItems(Tail(its))

TableBlock(b) ==
    CASE b.kind = "Heading" ->
            <<"<", "h", DIGITS[b.level + 1], ">">> \o TableText(b.text)
                \o <<"<", "/", "h", DIGITS[b.level + 1], ">">>
      [] b.kind = "UnorderedList" ->
            <<"<", "u", "l", ">">> \o TableItems(b.items)
                \o <<"<", "/", "u", "l", ">">>
      [] b.kind = "OrderedList" ->
            <<"<", "o", "l", ">">> \o TableItems(b.items)
                \o <<"<", "/", "o", "l", ">">>
      [] b.kind = "Codeblock" -> CodeHtml(b.lang, b.code)
      [] b.kind = "Line" ->
            IF TableText(b.text) = <<>> THEN <<>>
            ELSE Paragraph(TableText(b.text))

RECURSIVE TableTree(_)
TableTree(m) ==
    IF m = <<>> THEN <<>> ELSE TableBlock(Head(m)) \o TableTree(Tail(m))

\* C10: translate is defined on every tree and returns the concatenation,
\* in order and without separators, of the renderings of the table.
C10_TranslateIsTable ==
    (fn = "translate" /\ pc = "called") => out = TableTree(tree)

\* C10 witness: two blocks were translated and joined without separator.
C10_Witness ==
    /\ fn = "translate"
    /\ tree = <<Heading(1, <<Plaintext(<<"a">>)>>), Line(<<Italic(<<"a">>)>>)>>
    /\ out = <<"<", "h", "1", ">", "a", "<", "/", "h", "1", ">",
               "<", "p", ">", "<", "i", ">", "a", "<", "/", "i", ">",
               "<", "/", "p", ">">>

\* The blocks of m that are not blank lines.
RECURSIVE WithoutBlankLines(_)
WithoutBlankLines(m) ==
    IF m = <<>> THEN <<>>
    ELSE (IF Head(m) = Line(<<>>) THEN <<>> ELSE <<Head(m)>>)
            \o WithoutBlankLines(Tail(m))

IsBlankDoc(s) == s # <<>> /\ Chars(s) = {"\n"}

\* C11: a Line block renders as <p>inline</p> if and only if its rendered
\* inline content is non-empty and as the empty string otherwise; blank
\* source lines contribute nothing to the output, and a document made only
\* of blank lines renders as the empty string.
C11_LineParagraphIffNonEmpty ==
    /\ (fn = "translate" /\ pc = "called") =>
           /\ TableText(tree[1].text) # <<>> =>
                  out = Paragraph(TableText(tree[1].text))
           /\ TableText(tree[1].text) = <<>> => out = <<>>
           /\ (StartsWith(out, <<"<", "p", ">">>)) <=>
                  TableText(tree[1].text) # <<>>
    /\ pc = "done" =>
           /\ out = translate(WithoutBlankLines(blocks))
           /\ IsBlankDoc(md) =>
                  (out = <<>> /\ blocks = [k \in 1..Len(md) |-> Line(<<>>)])

\* C11 witness: a blank line followed by a plain line rendered as the one
\* paragraph of the plain line.
C11_Witness ==
    /\ pc = "done"
    /\ md = <<"\n", "a", "\n">>
    /\ blocks = <<Line(<<>>), Line(<<Plaintext(<<"a">>)>>)>>
    /\ out = <<"<", "p", ">", "a", "<", "/", "p", ">">>

\* C12: the empty input parses successfully to an empty block sequence
\* with empty remainder, and render_markdown of it is the empty string, not
\* the fallback string.
C12_EmptyInput ==
    (md = <<>> /\ pc \in {"parsed", "failed", "done"}) =>
        /\ pc # "failed"
        /\ blocks = <<>>
        /\ rest = <<>>
        /\ pc = "done" => (out = <<>> /\ out # FALLBACK)

\* C12 witness: render_markdown returned the empty string on the empty
\* input.
C12_Witness ==
    md = <<>> /\ pc = "done" /\ blocks = <<>> /\ rest = <<>> /\ out = <<>>

\* The payload condition of C13 on a node n that parse_markdown_inline
\* returned on the input i: i[1] is the character of its opening delimiter.
PayloadOk(n, i) ==
    CASE n.kind \in {"Italic", "Bold", "BoldItalic"} ->
            /\ n.text # <<>>
            /\ i[1] \in {"*", "_"}
            /\ i[1] \notin Chars(n.text)
      [] n.kind = "InlineCode" ->
            n.text # <<>> /\ BACKTICK \notin Chars(n.text)
      [] n.kind \in {"Link", "Image"} ->
            /\ n.text # <<>>
            /\ n.url # <<>>
            /\ "]" \notin Chars(n.text)
            /\ ")" \notin Chars(n.url)
      [] n.kind = "Plaintext" -> TRUE

\* The payload condition on every node of the inline sequence that
\* many0(parse_markdown_inline) reads from i, each node taken with the
\* input it was read from.
RECURSIVE PayloadsOkFrom(_)
PayloadsOkFrom(i) ==
    LET r == parse_markdown_inline(i)
    IN  (r.ok /\ Len(r.rest) < Len(i)) =>
            (PayloadOk(r.val, i) /\ PayloadsOkFrom(r.rest))

\* The inline sequences of a block.
InlineSeqs(b) ==
    CASE b.kind \in {"Heading", "Line"} -> {b.text}
      [] b.kind \in {"UnorderedList", "OrderedList"} ->
            {b.items[k] : k \in 1..Len(b.items)}
      [] b.kind = "Codeblock" -> {}

\* All inline nodes of a block sequence.
InlineNodesOf(m) ==
    UNION {{t[j] : j \in 1..Len(t)} :
              t \in UNION {InlineSeqs(m[k]) : k \in 1..Len(m)}}

\* The payload condition on a node of a tree, where the opening delimiter
\* is no longer known: an emphasis payload lacks "*" or lacks "_".
TreePayloadOk(n) ==
    \/ PayloadOk(n, <<"*">>)
    \/ PayloadOk(n, <<"_">>)

\* C13: every Italic, Bold, BoldItalic and InlineCode payload, and both
\* components of every Link and Image, that the parser returns is non-empty
\* and holds none of the delimiter characters of its node.
C13_PayloadInvariant ==
    /\ (fn = "parse_markdown_inline" /\ res.ok) => PayloadOk(res.val, md)
    /\ fn = "parse_markdown_text_until_eol" => PayloadsOkFrom(md)
    /\ pc \in {"many0", "parsed", "done"} =>
           \A n \in InlineNodesOf(blocks) : TreePayloadOk(n)

\* C13 witness: an underscore span whose payload holds a star was parsed
\* as Italic with that payload.
C13_Witness ==
    /\ fn = "parse_markdown_inline"
    /\ md = <<"_", "a", "*", "_">>
    /\ res = Ok(<<>>, Italic(<<"a", "*">>))

\* The input starts with one or more of the characters 0..9, a dot and a
\* space.
IsDecimalMarker(s) ==
    LET n == PrefixLen([k \in 1..Len(s) |-> s[k] \in Chars(DIGITS)], s)
    IN  n >= 1 /\ StartsWith(Drop(s, n), <<".", " ">>)

\* The input with the first digit of its marker exchanged for another.
Renumbered(s) ==
    IF s # <<>> /\ s[1] = "1" THEN <<"2">> \o Tail(s)
    ELSE IF s # <<>> /\ s[1] = "2" THEN <<"1">> \o Tail(s)
    ELSE s

\* C14: parse_ordered_list_tag succeeds if and only if the input starts
\* with one or more decimal digits 0..9, a dot and one space (no other
\* character is accepted as a marker digit), and the value of the marker
\* has no effect on the resulting OrderedList.
C14_OrderedTagDecimalDigits ==
    /\ fn = "parse_ordered_list_tag" => (res.ok <=> IsDecimalMarker(md))
    /\ fn = "parse_ordered_list" =>
           /\ res.ok => IsDecimalMarker(md)
           /\ res.val = parse_ordered_list(Renumbered(md)).val

\* One of the patterns "*", backtick, "[", "![" or a line terminator
\* begins at position k of s.
StopPatterns == {<<"*">>, <<BACKTICK>>, <<"[">>, <<"!", "[">>, <<"\n">>}
StopBeginsAt(s, k) ==
    \E t \in StopPatterns : StartsWith(Drop(s, k - 1), t)

\* The longest prefix of s in which no position begins with such a pattern.
PlainRun(s) ==
    Take(s, PrefixLen([k \in 1..Len(s) |-> ~StopBeginsAt(s, k)], s))

\* What follows the opening fence, and what follows the plaintext run
\* after the fence.
AfterFence(s) == Drop(s, Len(FENCE))
AfterLang(s) == Drop(AfterFence(s), Len(PlainRun(AfterFence(s))))

\* C15: when the opening fence is immediately followed by a line
\* terminator the language is the sentinel __UNKNOWN_LANGUAGE__; otherwise
\* it is the non-empty plaintext run after the three backticks; in both
\* cases a line terminator must follow directly, otherwise parse_code_block
\* fails.
C15_CodeblockLanguage ==
    (fn = "parse_code_block" /\ StartsWith(md, FENCE)) =>
        /\ res.ok =>
               IF StartsWith(AfterFence(md), NEWLINE)
               THEN res.val[1] = UNKNOWN_LANGUAGE
               ELSE /\ PlainRun(AfterFence(md)) # <<>>
                    /\ res.val[1] = PlainRun(AfterFence(md))
        /\ ~StartsWith(AfterLang(md), NEWLINE) => ~res.ok

\* C15 witness: a fence directly followed by a line terminator gave the
\* sentinel language.
C15_Witness ==
    /\ fn = "parse_code_block"
    /\ md = FENCE \o <<"\n", "a">> \o FENCE
    /\ res = Ok(<<>>, <<UNKNOWN_LANGUAGE, <<"a">>>>)

\* C16: parse_plaintext returns the longest non-empty prefix of its input
\* in which no position begins with "*", backtick, "[", "![" or a line
\* terminator, and fails, consuming nothing, exactly when that prefix is
\* empty.
C16_PlaintextLongestRun ==
    fn = "parse_plaintext" =>
        /\ res.ok <=> PlainRun(md) # <<>>
        /\ res.ok =>
               res = Ok(Drop(md, Len(PlainRun(md))), PlainRun(md))
        /\ ~res.ok => res.rest = md

\* C16 witness: the "!" before "[" was left unconsumed while the earlier
\* "!" was consumed.
C16_Witness ==
    /\ fn = "parse_plaintext"
    /\ md = <<"a", "!", "!", "[">>
    /\ res = Ok(<<"!", "[">>, <<"a", "!">>)

\* A document that is one fenced block the recognizer accepts: the fenced
\* form with a non-empty body without backtick.
WellFenced(s) ==
    /\ IsFencedForm(s)
    /\ FencedBody(s) # <<>>
    /\ BACKTICK \notin Chars(FencedBody(s))

\* The block of such a document.
FencedBlock(s) ==
    Codeblock(IF FencedLang(s) = <<>> THEN UNKNOWN_LANGUAGE ELSE FencedLang(s),
              FencedBody(s))

\* The number of characters from the opening fence through the closing
\* fence when the recognizer returned the body b.
FencedSpanLen(s, b) ==
    Len(FENCE) + Len(PlainRun(AfterFence(s))) + 1 + Len(b) + Len(FENCE)

\* C17: on success parse_code_block consumes exactly through the three
\* backticks of the closing fence and not the line terminator after it; a
\* document that ends directly after the closing fence is consumed
\* completely, and a line terminator after the fence is parsed as a
\* separate empty Line block that renders as the empty string.
C17_ClosingFenceNotNewline ==
    /\ (fn = "parse_code_block" /\ res.ok) =>
           /\ Take(md, FencedSpanLen(md, res.val[2])) =
                  FENCE \o PlainRun(AfterFence(md)) \o NEWLINE
                      \o res.val[2] \o FENCE
           /\ res.rest = Drop(md, FencedSpanLen(md, res.val[2]))
    /\ (pc \in {"parsed", "done"} /\ WellFenced(md)) =>
           /\ rest = <<>>
           /\ blocks = <<FencedBlock(md)>>
    /\ (/\ pc \in {"parsed", "done"}
        /\ md # <<>>
        /\ md[Len(md)] = "\n"
        /\ WellFenced(LineOf(md))) =>
           /\ rest = <<>>
           /\ blocks = <<FencedBlock(LineOf(md)), Line(<<>>)>>
           /\ pc = "done" =>
                  out = CodeHtml(FencedBlock(LineOf(md)).lang,
                                 FencedBlock(LineOf(md)).code)

\* C17 witness: the line terminator after the closing fence became an
\* empty Line block that added nothing to the output.
C17_Witness ==
    /\ pc = "done"
    /\ md = FENCE \o <<"a", "\n", "a">> \o FENCE \o NEWLINE
    /\ rest = <<>>
    /\ blocks = <<Codeblock(<<"a">>, <<"a">>), Line(<<>>)>>
    /\ out = CodeHtml(<<"a">>, <<"a">>)

\* C18: a recognizer that fails consumes nothing, and when the (k+1)-th
\* item line of a list fails to match after k >= 1 item lines matched,
\* parse_unordered_list and parse_ordered_list return exactly the first k
\* items, the remaining input starting at the first character of the
\* failed line.
C18_NoPartialConsumption ==
    /\ (fn \notin {"none", "translate"} /\ ~res.ok) => res.rest = md
    /\ fn = "parse_unordered_list" =>
           LET ls == SplitLines(md)
               k == PrefixLen(
                        [j \in 1..Len(ls) |-> IsUnorderedItemLine(ls[j])], ls)
           IN  (k >= 1 /\ k < Len(ls)) =>
                   res = Ok(Concat(SubSeq(ls, k + 1, Len(ls))),
                            [j \in 1..k |->
                                parse_unordered_list_element(ls[j]).val])
    /\ fn = "parse_ordered_list" =>
           LET ls == SplitLines(md)
               k == PrefixLen(
                        [j \in 1..Len(ls) |-> IsOrderedItemLine(ls[j])], ls)
           IN  (k >= 1 /\ k < Len(ls)) =>
                   res = Ok(Concat(SubSeq(ls, k + 1, Len(ls))),
                            [j \in 1..k |->
                                parse_ordered_list_element(ls[j]).val])

IsSuffix(t, s) == Len(t) <= Len(s) /\ Drop(s, Len(s) - Len(t)) = t

\* C19: for every input parse_markdown terminates and returns a success
\* value whose remaining input is a suffix of the input: every iteration
\* of the repetition that pushes a block consumes at least one character,
\* so the repetition makes at most as many iterations as the input has
\* characters, and its no-progress error is never raised.
C19_ParseMarkdownTerminates ==
    /\ [](/\ pc # "failed"
          /\ IsSuffix(rest, md)
          /\ Len(blocks) + Len(rest) <= Len(md))
    /\ [][pc' = "many0" =>
            (Len(rest') < Len(rest) /\ Len(blocks') = Len(blocks) + 1)]_vars

\* C19 witness: parse_markdown returned one block and the unterminated
\* last line as remaining input.
C19_Witness ==
    /\ pc = "parsed"
    /\ md = <<"#", " ", "a", "\n", "*">>
    /\ blocks = <<Heading(1, <<Plaintext(<<"a">>)>>)>>
    /\ rest = <<"*">>

\* The payloads of an inline node.
PayloadsOf(n) ==
    IF n.kind \in {"Link", "Image"} THEN {n.text, n.url} ELSE {n.text}

\* The number of inline sequences of a block sequence: one per Heading,
\* list item and Line.
RECURSIVE InlineSeqCount(_)
InlineSeqCount(m) ==
    IF m = <<>> THEN 0
    ELSE (CASE Head(m).kind \in {"Heading", "Line"} -> 1
            [] Head(m).kind \in {"UnorderedList", "OrderedList"} ->
                  Len(Head(m).items)
            [] Head(m).kind = "Codeblock" -> 0)
         + InlineSeqCount(Tail(m))

\* The number of line terminators in s.
NewlineCount(s) == Cardinality({k \in 1..Len(s) : s[k] = "\n"})

HasCodeblock(m) == \E k \in 1..Len(m) : m[k].kind = "Codeblock"

\* C20: no payload of an inline node of a parsed tree contains a line
\* terminator, so each Heading, list item and Line block consumes exactly
\* one line terminator.
C20_PayloadsWithinOneLine ==
    pc \in {"many0", "parsed", "done"} =>
        /\ \A n \in InlineNodesOf(blocks) :
               \A t \in PayloadsOf(n) : "\n" \notin Chars(t)
        /\ ~HasCodeblock(blocks) =>
               NewlineCount(Take(md, Len(md) - Len(rest)))
                   = InlineSeqCount(blocks)

\* No two adjacent nodes of the inline sequence t are both Plaintext.
NoAdjacentPlaintext(t) ==
    \A k \in 1..(Len(t) - 1) :
        ~(t[k].kind = "Plaintext" /\ t[k + 1].kind = "Plaintext")

\* C21: no inline sequence produced by the parser contains two adjacent
\* Plaintext nodes: a Plaintext node is followed by a non-Plaintext node or
\* by the end of the sequence.
C21_NoAdjacentPlaintext ==
    /\ (fn = "parse_markdown_text_until_eol" /\ res.ok) =>
           NoAdjacentPlaintext(res.val)
    /\ pc \in {"many0", "parsed", "done"} =>
           \A k \in 1..Len(blocks) :
               \A t \in InlineSeqs(blocks[k]) : NoAdjacentPlaintext(t)

\* C21 witness: a line with two plain runs, which an emphasis span
\* separates.
C21_Witness ==
    /\ fn = "parse_markdown_text_until_eol"
    /\ md = <<"a", "*", "a", "*", "a", "\n">>
    /\ res = Ok(<<>>, <<Plaintext(<<"a">>), Italic(<<"a">>),
                        Plaintext(<<"a">>)>>)

\* Along the inline sequence that many0(parse_markdown_inline) reads from
\* i: a node read at an underscore is not directly after a Plaintext node;
\* afterPlain tells whether the node before i was a Plaintext.
RECURSIVE UnderscoreNotAfterPlain(_, _)
UnderscoreNotAfterPlain(i, afterPlain) ==
    LET r == parse_markdown_inline(i)
    IN  (r.ok /\ Len(r.rest) < Len(i)) =>
            /\ (r.val.kind \in {"Italic", "Bold", "BoldItalic"} /\ i[1] = "_")
                   => ~afterPlain
            /\ UnderscoreNotAfterPlain(r.rest, r.val.kind = "Plaintext")

\* The line: a plain letter, n delimiter characters d, a letter, n
\* delimiter characters d, a line terminator.
PlainThenSpan(d, n) ==
    <<"a">> \o Repeat(<<d>>, n) \o <<"a">> \o Repeat(<<d>>, n) \o NEWLINE

\* C22: underscore is not a plaintext stop character: underscore-delimited
\* emphasis is recognised only at the start of an inline sequence or
\* directly after a non-Plaintext node; after plaintext characters on the
\* same line the underscores and their content stay inside one Plaintext
\* node, while the same span written with stars is a separate emphasis
\* node.
C22_UnderscoreInsidePlaintext ==
    fn = "parse_markdown_text_until_eol" =>
        /\ UnderscoreNotAfterPlain(md, FALSE)
        /\ (res.ok /\ PlainRun(md) # <<>> /\ md[1] # "_") =>
               res.val[1] = Plaintext(PlainRun(md))
        /\ \A n \in 1..3 :
               /\ md = PlainThenSpan("_", n) =>
                      res = Ok(<<>>, <<Plaintext(LineOf(md))>>)
               /\ md = PlainThenSpan("*", n) =>
                      res = Ok(<<>>, <<Plaintext(<<"a">>),
                                      EmphNode(n, <<"a">>)>>)
               /\ md = Drop(PlainThenSpan("_", n), 1) =>
                      res = Ok(<<>>, <<EmphNode(n, <<"a">>)>>)
               /\ md = <<"*", "a", "*">> \o Drop(PlainThenSpan("_", n), 1) =>
                      res = Ok(<<>>, <<Italic(<<"a">>), EmphNode(n, <<"a">>)>>)

\* C22 witness: an underscore span after a plain letter stayed inside the
\* one Plaintext node of the line.
C22_Witness ==
    /\ fn = "parse_markdown_text_until_eol"
    /\ md = <<"a", "_", "a", "_", "\n">>
    /\ res = Ok(<<>>, <<Plaintext(<<"a", "_", "a", "_">>)>>)

=============================================================================
